---- MODULE Spec2Model ----
(***************************************************************************)
(* Annotation review tool (src/utils.py, src/app.py): the inline tag       *)
(* tokenizer and stream builder, the username sanitizer, the request       *)
(* handlers, and the per-(user, model, row) JSON annotation store with its *)
(* temp-file-then-rename save and its corrupt-file quarantine on load.     *)
(*                                                                         *)
(* Strings are sequences of one-character strings.  Offsets are Python's   *)
(* 0-based offsets, so character k of a Python string s is s[k+1] here.    *)
(***************************************************************************)
EXTENDS Integers, Sequences, FiniteSets, TLC

VARIABLES
    \* ---- pure functions (tokenizer, stream builder, sanitizer, login)
    text,       \* the tagged text handed to extract_tags / build_inline_stream
    tags,       \* result of extract_tags(text)
    stream,     \* result of build_inline_stream(text)
    phase,      \* "new" | "extracted" | "built" | "login" | "signed_in" | "rejected"
    name,       \* the raw name posted to /login
    session,    \* session["username"] (NoUser when absent)
    userDir,    \* directory ensure_user_dirs created, as resolved path components
    \* ---- request handlers (app.py), one request at a time
    df,         \* DF: the dataset rows, loaded once at startup
    files,      \* the signed-in user's annotation files: <<model, row>> -> record
    req,        \* the last request: route, method, row index, model argument
    resp,       \* how the last request ended
    fsops,      \* file operations the last request made on annotation paths
    \* ---- annotation store (utils.py), one (user, model, row) key,
    \*      save and load interleaved at the granularity of their system calls
    dir,        \* directory entries: "target" | "tmp" | "corrupt" -> inode (0: none)
    data,       \* inode -> content, a sequence of chunks <<record, part>>
    orig,       \* what the target path held at the start (NoFile when absent)
    nsaves,     \* save requests started so far; the next one's record id
    lastRenamed, \* record of the save whose os.replace succeeded last (0: none)
    spc,        \* per save request: its position in annotate POST / save_annotations
    sfd,        \* per save request: inode of its open temporary file (0: closed)
    soff,       \* per save request: its file offset, in chunks
    srec,       \* per save request: the record it is saving
    lpc,        \* per load: its position in load_existing_annotations
    lfd,        \* per load: inode of the file it has open (0: none)
    lread,      \* per load: the content json.load read (NoFile before it reads)
    lres        \* per load: "none" | "empty" | "record" | "raised"

pureVars == <<text, tags, stream, phase, name, userDir>>
appVars == <<df, files, req, resp, fsops>>
fsVars == <<dir, data, orig, lastRenamed>>
saveVars == <<nsaves, spc, sfd, soff, srec>>
loadVars == <<lpc, lfd, lread, lres>>
storeVars == <<fsVars, saveVars, loadVars>>

vars == <<text, tags, stream, phase, name, session, userDir,
          df, files, req, resp, fsops,
          dir, data, orig, nsaves, lastRenamed, spc, sfd, soff, srec,
          lpc, lfd, lread, lres>>

----------------------------------------------------------------------------
(* Bounds *)

MaxTextLen == 7
MaxNameLen == 3
NRows == 1          \* len(DF)
NumSavers == 2      \* save requests that may be in flight together
NumLoaders == 2     \* loads that may be in flight together
MaxSaves == 2       \* save requests in one behaviour

----------------------------------------------------------------------------
(* Strings *)

TextAlphabet == {"[", "]", " ", "a"}
NameAlphabet == {"a", ".", " ", "/"}

StringsUpTo(alphabet, n) == UNION {[1..k -> alphabet] : k \in 0..n}

Min(S) == CHOOSE x \in S : \A y \in S : x <= y

\* Python's s[a:b] for 0 <= a <= b <= len(s)
Slice(s, a, b) == SubSeq(s, a + 1, b)

IsSpace(c) == c = " "

\* str.strip(): drop leading and trailing whitespace
Strip(s) ==
    LET keep == {i \in 1..Len(s) : ~IsSpace(s[i])}
    IN  IF keep = {} THEN << >>
        ELSE SubSeq(s, Min(keep), CHOOSE i \in keep : \A j \in keep : j <= i)

----------------------------------------------------------------------------
(* Tag tokenizer: TAG_PATTERN = \[([^\[\]]+)\] *)

IsBracket(c) == c \in {"[", "]"}

\* End offset (exclusive, 0-based) of a TAG_PATTERN match starting at 0-based
\* offset i, or -1 when the pattern does not match there.
TagMatchEnd(s, i) ==
    IF i + 1 > Len(s) \/ s[i + 1] # "[" THEN -1
    ELSE LET later == {j \in (i + 2)..Len(s) : IsBracket(s[j])}
         IN  IF later = {} THEN -1
             ELSE LET j == Min(later)
                  IN  IF j > i + 2 /\ s[j] = "]" THEN j ELSE -1

\* TAG_PATTERN.finditer(s): leftmost, non-overlapping matches from offset pos,
\* as <<start, end>> pairs.
RECURSIVE FindIter(_, _)
FindIter(s, pos) ==
    LET starts == {i \in pos..(Len(s) - 1) : TagMatchEnd(s, i) # -1}
    IN  IF starts = {} THEN << >>
        ELSE LET i == Min(starts)
                 e == TagMatchEnd(s, i)
             IN  <<(<<i, e>>)>> \o FindIter(s, e)

\* a cell that is not a string: pandas reads an empty spreadsheet cell as NaN
NaN == <<"NaN">>
IsStr(x) == x # NaN

extract_tags(tagged_text) ==
    IF ~IsStr(tagged_text) \/ Strip(tagged_text) = << >> THEN << >>
    ELSE LET ms == FindIter(tagged_text, 0)
         IN  [k \in 1..Len(ms) |->
                [idx   |-> k,
                 text  |-> Strip(Slice(tagged_text, ms[k][1] + 1, ms[k][2] - 1)),
                 start |-> ms[k][1],
                 end   |-> ms[k][2]]]

\* len(TAG_PATTERN.findall(s)): counted by a left-to-right scan of its own
RECURSIVE CountFrom(_, _)
CountFrom(s, pos) ==
    IF pos >= Len(s) THEN 0
    ELSE IF TagMatchEnd(s, pos) # -1 THEN 1 + CountFrom(s, TagMatchEnd(s, pos))
    ELSE CountFrom(s, pos + 1)

count_tags_in_text(tagged_text) ==
    IF ~IsStr(tagged_text) THEN 0 ELSE CountFrom(tagged_text, 0)

----------------------------------------------------------------------------
(* Stream builder *)

TextSeg(t) == [kind |-> "text", text |-> t]
TagSeg(t)  == [kind |-> "tag", text |-> t.text, idx |-> t.idx]

\* a plausible slip: the trailing text is tested one character short
TrailingTextOffByOne(s, last) ==
    IF last < Len(s) - 1 THEN <<TextSeg(Slice(s, last, Len(s)))>> ELSE << >>

\* the text after the last tag (utils.py 146-147)
TrailingText(s, last) ==
    IF last < Len(s) THEN <<TextSeg(Slice(s, last, Len(s)))>> ELSE << >>

\* the loop of build_inline_stream over tags[k..], with the cursor at `last`
RECURSIVE StreamLoop(_, _, _, _)
StreamLoop(s, ts, k, last) ==
    IF k > Len(ts)
    THEN TrailingText(s, last)
    ELSE LET t == ts[k]
             gap == IF t.start > last
                    THEN <<TextSeg(Slice(s, last, t.start))>> ELSE << >>
         IN  gap \o <<TagSeg(t)>> \o StreamLoop(s, ts, k + 1, t.end)

build_inline_stream(tagged_text) ==
    LET s == IF IsStr(tagged_text) THEN tagged_text ELSE << >>
        ts == extract_tags(s)
    IN  IF ts = << >> THEN <<TextSeg(s)>>
        ELSE StreamLoop(s, ts, 1, 0)

----------------------------------------------------------------------------
(* Username sanitizer and user directories *)

\* characters of the model's alphabets matched by [A-Za-z0-9._-]
SafeChars == {"a", "n", "o", "t", "r", ".", "_", "-"}

DefaultName == <<"a", "n", "n", "o", "t", "a", "t", "o", "r">>

sanitize_username(raw) ==
    LET s == Strip(raw)
        safe == [i \in 1..Len(s) |-> IF s[i] \in SafeChars THEN s[i] ELSE "_"]
    IN  IF safe = << >> THEN DefaultName ELSE safe

ANNOTATIONS_BASE == <<"app", "annotations">>

\* the directory os.path.join(base, component) names once the file system
\* resolves "." and ".."
JoinResolved(base, component) ==
    IF component = <<".">> THEN base
    ELSE IF component = <<".", ".">> THEN SubSeq(base, 1, Len(base) - 1)
    ELSE Append(base, component)

ensure_user_dirs(base_dir, username) ==
    JoinResolved(base_dir, sanitize_username(username))

NoUser == << >>
NoDir == <<"-">>

----------------------------------------------------------------------------
(* Annotation store: files of one (user, model, row) key *)

Savers == 1..NumSavers
Loaders == 1..NumLoaders

\* path = json_path_for(...), path + ".tmp", path + ".corrupt"
PathNames == {"target", "tmp", "corrupt"}

\* enough inodes for every directory entry and every open file
Inodes == 1..(3 + NumSavers + NumLoaders)

\* json.dump writes the record through a buffered file: what overflows the
\* buffer is written while dumping (part 1), the rest at f.flush() (part 2)
Chunk(r, part) == <<r, part>>
Hole == <<0, 0>>
Record(r) == <<Chunk(r, 1), Chunk(r, 2)>>

\* content that is not a file's content: the path is absent, nothing was read
NoFile == <<(<<-1, -1>>)>>

\* record 0 is the one an earlier run saved; cut short it is invalid JSON
OldRecord == Record(0)
Junk == <<Chunk(0, 1)>>

\* json.load succeeds: the text is one whole JSON document
Parses(c) == Len(c) = 2 /\ c[1][2] = 1 /\ c[2][2] = 2

\* the complete record of one save
IsCompleteRecord(c) == \E r \in 0..MaxSaves : c = Record(r)

\* write(chunk) at chunk offset off of a file whose content is c
WriteAt(c, off, chunk) ==
    [i \in 1..(IF off + 1 > Len(c) THEN off + 1 ELSE Len(c)) |->
        IF i = off + 1 THEN chunk
        ELSE IF i <= Len(c) THEN c[i] ELSE Hole]

\* content of the file at a path (NoFile when the path is absent)
ContentAt(d, dt, p) == IF d[p] = 0 THEN NoFile ELSE dt[d[p]]

\* an inode no directory entry and no open file refers to is gone
Referenced(d, sf, lf) ==
    {d[p] : p \in PathNames} \cup {sf[s] : s \in DOMAIN sf}
        \cup {lf[l] : l \in DOMAIN lf}

Scrub(d, sf, lf, dt) ==
    [i \in Inodes |-> IF i \in Referenced(d, sf, lf) THEN dt[i] ELSE << >>]

FreeInode == Min(Inodes \ Referenced(dir, sfd, lfd))

\* the store is not running
StoreIdle ==
    /\ dir = << >> /\ data = << >> /\ orig = NoFile /\ nsaves = 0 /\ lastRenamed = 0
    /\ spc = << >> /\ sfd = << >> /\ soff = << >> /\ srec = << >>
    /\ lpc = << >> /\ lfd = << >> /\ lread = << >> /\ lres = << >>

NoReq == [route |-> "none", method |-> "none", row |-> -1, model |-> "-"]

\* the request handlers are not running
AppIdle ==
    /\ df = << >> /\ files = << >> /\ req = NoReq /\ resp = "none" /\ fsops = {}

\* the pure functions are not being exercised
PureIdle ==
    /\ text = << >> /\ name = << >> /\ phase = "idle"
    /\ tags = << >> /\ stream = << >> /\ userDir = NoDir

NewCall(t, n, p) ==
    /\ text = t /\ name = n /\ phase = p
    /\ tags = << >> /\ stream = << >> /\ session = NoUser /\ userDir = NoDir
    /\ AppIdle /\ StoreIdle

InitPure ==
    \/ \E t \in StringsUpTo(TextAlphabet, MaxTextLen) : NewCall(t, << >>, "new")
    \/ \E n \in StringsUpTo(NameAlphabet, MaxNameLen) : NewCall(<< >>, n, "login")

ExtractTags ==
    /\ phase = "new"
    /\ tags' = extract_tags(text)
    /\ phase' = "extracted"
    /\ UNCHANGED <<text, stream, name, session, userDir, appVars, storeVars>>

BuildInlineStream ==
    /\ phase = "extracted"
    /\ stream' = build_inline_stream(text)
    /\ phase' = "built"
    /\ UNCHANGED <<text, tags, name, session, userDir, appVars, storeVars>>

\* POST /login
Login ==
    /\ phase = "login"
    /\ LET n == Strip(name)
       IN  IF n = << >>
           THEN /\ phase' = "rejected"
                /\ UNCHANGED <<session, userDir>>
           ELSE /\ session' = sanitize_username(n)
                /\ userDir' = ensure_user_dirs(ANNOTATIONS_BASE, sanitize_username(n))
                /\ phase' = "signed_in"
    /\ UNCHANGED <<text, tags, stream, name, appVars, storeVars>>

NextPure ==
    \/ ExtractTags
    \/ BuildInlineStream
    \/ Login

SpecPure == InitPure /\ [][NextPure]_vars

----------------------------------------------------------------------------
(* Properties of the pure functions *)

RECURSIVE ConcatContent(_)
ConcatContent(segs) ==
    IF segs = << >> THEN << >>
    ELSE Head(segs).text \o ConcatContent(Tail(segs))

\* the stream with every tag segment replaced by the source span of the tag
\* of that index, text[start:end]
RECURSIVE ConcatSpans(_, _, _)
ConcatSpans(segs, ts, s) ==
    IF segs = << >> THEN << >>
    ELSE LET g == Head(segs)
             piece == IF g.kind = "tag"
                      THEN Slice(s, ts[g.idx].start, ts[g.idx].end)
                      ELSE g.text
         IN  piece \o ConcatSpans(Tail(segs), ts, s)

\* C3 (as claimed): concatenating the content of every segment of
\* build_inline_stream(S) in order yields exactly S.
C3_RoundTrip ==
    phase = "built" => ConcatContent(stream) = text

\* C3 (amended): the text segments are exactly the gaps between the tag spans,
\* so the stream reproduces S once every tag segment is replaced by the
\* bracketed source span of the tag of its index; a tag segment's own content
\* is the trimmed interior without the brackets, so the plain concatenation
\* yields S exactly when S has no tag.
C3_RoundTripWithSpans ==
    phase = "built" =>
        /\ ConcatSpans(stream, tags, text) = text
        /\ (ConcatContent(stream) = text) <=> (tags = << >>)

\* two tags, one with a padded interior, and text left over after the last tag
C3_Witness ==
    /\ phase = "built"
    /\ Len(tags) = 2
    /\ \E k \in 1..2 : Len(tags[k].text) < tags[k].end - tags[k].start - 2
    /\ stream[Len(stream)].kind = "text"

IsProperChild(d, base) ==
    /\ Len(d) = Len(base) + 1
    /\ SubSeq(d, 1, Len(base)) = base
    /\ d[Len(d)] \notin {<< >>, <<".">>, <<".", ".">>}

\* C8: the sanitized name is non-empty, holds only letters, digits, '.', '_'
\* and '-', is never "." or "..", and the user directory is a proper child of
\* the annotations base directory.
C8_SafePathComponent ==
    phase = "signed_in" =>
        /\ session # << >>
        /\ \A i \in 1..Len(session) : session[i] \in SafeChars
        /\ session \notin {<<".">>, <<".", ".">>}
        /\ IsProperChild(userDir, ANNOTATIONS_BASE)

----------------------------------------------------------------------------
(* Request handlers (app.py).  Each request runs to completion here; the    *)
(* steps of the store's save and load are interleaved further below.        *)

\* MODELS = discover_models(DF): gpt4o first
MODELS == <<"gpt4o", "gpt4">>
ModelSet == {MODELS[i] : i \in 1..Len(MODELS)}

\* what request.args / request.form may carry as "model" (NoArg: not given)
NoArg == ""
ModelArgs == ModelSet \cup {"bogus", NoArg}

\* rows the dataset is drawn from: each model's own text, text only in the
\* default model's column, text only in the translation, and empty cells
RowSamples ==
    { [gpt4o |-> <<"[", "a", "]", " ", "[", " ", "a", " ", "]">>,
       gpt4  |-> <<"a", "[", "a", "]">>,
       eng   |-> <<"a">>],
      [gpt4o |-> <<"[", "a", "]", "]">>,
       gpt4  |-> << >>,
       eng   |-> <<"a">>],
      [gpt4o |-> << >>,
       gpt4  |-> << >>,
       eng   |-> <<"[", "[", "a", "]", " ", "a">>],
      [gpt4o |-> NaN,
       gpt4  |-> NaN,
       eng   |-> <<"[", "a", "]">>] }

\* Python's truthiness of a cell: an empty string is falsy, NaN is truthy
Truthy(x) == x # << >>

\* a or b
Or(a, b) == IF Truthy(a) THEN a ELSE b

\* df_row.get(model) or df_row.get("gpt4o_layer2_annotations")
\*     or df_row.get("English Translation") or ""
\* (df_row.get of a column the dataset lacks is None, which is falsy)
TaggedText(df_row, model) ==
    LET own == IF model \in DOMAIN df_row THEN df_row[model] ELSE << >>
    IN  Or(Or(Or(own, df_row.gpt4o), df_row.eng), << >>)

FormKeys == {1, 2}

\* the dec_tag_<k> fields of a submitted form: any subset of the keys, the
\* first tag agreed with and the second disagreed with when present
Forms ==
    {[k \in S |-> IF k = 1 THEN "agree" ELSE "disagree"] : S \in SUBSET FormKeys}

\* form_data.get(key)
FormGet(form, k) == IF k \in DOMAIN form THEN form[k] ELSE "None"

\* a plausible slip: tags the form leaves undecided are skipped
ItemsDecidedOnly(ts, form) ==
    LET RECURSIVE Keep(_)
        Keep(k) ==
            IF k > Len(ts) THEN << >>
            ELSE (IF ts[k].idx \in DOMAIN form
                  THEN <<[tag_index |-> ts[k].idx, tag_text |-> ts[k].text,
                          decision |-> form[ts[k].idx]]>>
                  ELSE << >>) \o Keep(k + 1)
    IN  Keep(1)

\* the items loop of build_payload_inline
Items(ts, form) ==
    [k \in 1..Len(ts) |->
        [tag_index |-> ts[k].idx,
         tag_text  |-> ts[k].text,
         decision  |-> FormGet(form, ts[k].idx)]]

build_payload_inline(username, model, row_index, ts, form) ==
    [annotator |-> username,
     model     |-> model,
     row_index |-> row_index,
     items     |-> Items(ts, form)]

NoRecord == [annotator |-> NoUser]

Keys == ModelSet \X (0..(NRows - 1))

FsOp(op, model, row) == [op |-> op, model |-> model, row |-> row]

\* os.path.exists(json_path_for(user_dir, model, row))
PathExists(model, row) ==
    <<model, row>> \in DOMAIN files /\ files[<<model, row>>] # NoRecord

\* the file operations of load_existing_annotations on a well-formed store
LoadOps(model, row) ==
    {FsOp("exists", model, row)}
        \cup (IF PathExists(model, row)
              THEN {FsOp("getsize", model, row), FsOp("open", model, row),
                    FsOp("read", model, row)}
              ELSE {})

\* the file operations of save_annotations
SaveOps(model, row) ==
    {FsOp("write_tmp", model, row), FsOp("replace", model, row)}

SignedIn == session # NoUser

InitApp ==
    /\ df \in [1..NRows -> RowSamples]
    /\ files = [k \in Keys |-> NoRecord]
    /\ session = NoUser
    /\ req = NoReq /\ resp = "none" /\ fsops = {}
    /\ PureIdle /\ StoreIdle

\* POST /login with a name that sanitizes to "a"; GET /logout
AppLogin ==
    /\ session = NoUser
    /\ session' = <<"a">>
    /\ req' = [route |-> "login", method |-> "POST", row |-> -1, model |-> NoArg]
    /\ resp' = "redirect" /\ fsops' = {}
    /\ UNCHANGED <<df, files, pureVars, storeVars>>

AppLogout ==
    /\ session' = NoUser
    /\ req' = [route |-> "logout", method |-> "GET", row |-> -1, model |-> NoArg]
    /\ resp' = "redirect_login" /\ fsops' = {}
    /\ UNCHANGED <<df, files, pureVars, storeVars>>

\* GET /index?model=m
Index(m) ==
    /\ req' = [route |-> "index", method |-> "GET", row |-> -1, model |-> m]
    /\ IF ~SignedIn
       THEN resp' = "redirect_login" /\ fsops' = {}
       ELSE LET model == IF m # NoArg THEN m ELSE MODELS[1]
            IN  /\ fsops' = UNION {
                      {FsOp("exists", model, i)}
                          \cup (IF PathExists(model, i)
                                THEN LoadOps(model, i) ELSE {})
                      : i \in 0..(NRows - 1)}
                /\ resp' = "page"
    /\ UNCHANGED <<df, files, session, pureVars, storeVars>>

\* GET or POST /annotate/<row_idx>, model argument m, submitted form `form`
Annotate(method, row_idx, m, form) ==
    /\ req' = [route |-> "annotate", method |-> method, row |-> row_idx, model |-> m]
    /\ IF ~SignedIn
       THEN resp' = "redirect_login" /\ fsops' = {} /\ UNCHANGED files
       ELSE LET m0 == IF m # NoArg THEN m ELSE MODELS[1]
                model == IF m0 \in ModelSet THEN m0 ELSE MODELS[1]
            IN  IF row_idx >= NRows
                THEN \* DF.iloc[row_idx] raises IndexError
                     resp' = "error" /\ fsops' = {} /\ UNCHANGED files
                ELSE LET df_row == df[row_idx + 1]
                         tagged_text == TaggedText(df_row, model)
                     IN  IF method = "POST"
                         THEN LET payload == build_payload_inline(
                                     session, model, row_idx,
                                     extract_tags(tagged_text), form)
                              IN  /\ files' = [files EXCEPT ![<<model, row_idx>>] = payload]
                                  /\ fsops' = SaveOps(model, row_idx)
                                  /\ resp' = "redirect"
                         ELSE /\ fsops' = LoadOps(model, row_idx)
                              /\ resp' = "page"
                              /\ UNCHANGED files
    /\ UNCHANGED <<df, session, pureVars, storeVars>>

NextApp ==
    \/ AppLogin
    \/ AppLogout
    \/ \E m \in ModelArgs : Index(m)
    \/ \E r \in 0..NRows, m \in ModelArgs : Annotate("GET", r, m, << >>)
    \/ \E r \in 0..NRows, m \in ModelArgs, f \in Forms : Annotate("POST", r, m, f)

SpecApp == InitApp /\ [][NextApp]_vars

\* C4: every persisted record has one item per tag of the tagged text used for
\* its row and model, in order: len(items) = K and items[i].tag_index = i+1
\* (position i+1 here), whatever decision fields the form held.
C4_ItemsAlignedWithTags ==
    \A k \in Keys :
        files[k] # NoRecord =>
            LET K == count_tags_in_text(TaggedText(df[k[2] + 1], k[1]))
                items == files[k].items
            IN  /\ Len(items) = K
                /\ \A i \in 1..K : items[i].tag_index = i

\* a record saved for a text with two tags from a form that decides only one
C4_Witness ==
    \E k \in Keys :
        /\ files[k] # NoRecord
        /\ Len(files[k].items) = 2
        /\ files[k].items[1].decision = "None"
        /\ files[k].items[2].decision = "disagree"

\* C7: a request whose row index is outside 0..N-1 or whose model key is not
\* a known model is rejected before any file operation on an annotation path.
C7_InvalidRejectedBeforeFileOps ==
    (/\ req.route \in {"index", "annotate"}
     /\ SignedIn
     /\ \/ req.route = "annotate" /\ req.row \notin 0..(NRows - 1)
        \/ req.model # NoArg /\ req.model \notin ModelSet)
    => (resp = "error" /\ fsops = {})

----------------------------------------------------------------------------
(* save_annotations and load_existing_annotations, step by step *)

InitContents == {NoFile, << >>, Junk, OldRecord}

\* the store with save requests S and loads L
InitStoreWith(S, L) ==
    /\ orig \in InitContents
    /\ dir = [p \in PathNames |-> IF p = "target" /\ orig # NoFile THEN 1 ELSE 0]
    /\ data = [i \in Inodes |-> IF i = 1 /\ orig # NoFile THEN orig ELSE << >>]
    /\ nsaves = 0 /\ lastRenamed = 0
    /\ spc = [s \in S |-> "idle"]
    /\ sfd = [s \in S |-> 0]
    /\ soff = [s \in S |-> 0]
    /\ srec = [s \in S |-> 0]
    /\ lpc = [l \in L |-> "idle"]
    /\ lfd = [l \in L |-> 0]
    /\ lread = [l \in L |-> NoFile]
    /\ lres = [l \in L |-> "none"]
    /\ session = <<"a">>
    /\ PureIdle /\ AppIdle

InitStore == InitStoreWith(Savers, Loaders)

\* one save request at a time: a single worker saves, again and again
InitOneSave == InitStoreWith({1}, Loaders)

\* positions at which a save request has ended with the exception propagated
\* out of annotate (no redirect is returned)
Raised == {"raised_oserror", "raised_enoent"}

SaveInProgress(s) == spc[s] \in {"dump", "flush", "replace"}
NoSaveInProgress == \A s \in DOMAIN spc : ~SaveInProgress(s)
AllIdle ==
    /\ \A s \in DOMAIN spc : spc[s] = "idle"
    /\ \A l \in DOMAIN lpc : lpc[l] = "idle"

\* a plausible slip: the record is written in place, straight to the target
WritePathInPlace == "target"

\* tmp = path + ".tmp": the path save_annotations opens for writing
WritePath == "tmp"

\* annotate POST up to open(tmp, "w"): creates the file or truncates the one
\* already there (other descriptors open on it keep their offsets)
SaveOpen(s) ==
    /\ spc[s] = "idle"
    /\ nsaves < MaxSaves
    /\ nsaves' = nsaves + 1
    /\ srec' = [srec EXCEPT ![s] = nsaves + 1]
    /\ LET ino == IF dir[WritePath] = 0 THEN FreeInode ELSE dir[WritePath]
       IN  /\ dir' = [dir EXCEPT ![WritePath] = ino]
           /\ data' = [data EXCEPT ![ino] = << >>]
           /\ sfd' = [sfd EXCEPT ![s] = ino]
    /\ soff' = [soff EXCEPT ![s] = 0]
    /\ spc' = [spc EXCEPT ![s] = "dump"]
    /\ UNCHANGED <<orig, lastRenamed, loadVars, session, pureVars, appVars>>

\* json.dump: the first part of the record reaches the file
SaveDump(s) ==
    /\ spc[s] = "dump"
    /\ data' = [data EXCEPT ![sfd[s]] = WriteAt(@, soff[s], Chunk(srec[s], 1))]
    /\ soff' = [soff EXCEPT ![s] = @ + 1]
    /\ spc' = [spc EXCEPT ![s] = "flush"]
    /\ UNCHANGED <<dir, orig, lastRenamed, nsaves, sfd, srec, loadVars,
                   session, pureVars, appVars>>

\* f.flush(); os.fsync(f.fileno()); and the file is closed on leaving `with`
SaveFlush(s) ==
    /\ spc[s] = "flush"
    /\ LET written == [data EXCEPT ![sfd[s]] = WriteAt(@, soff[s], Chunk(srec[s], 2))]
           closed == [sfd EXCEPT ![s] = 0]
       IN  /\ sfd' = closed
           /\ data' = Scrub(dir, closed, lfd, written)
    /\ soff' = [soff EXCEPT ![s] = 0]
    /\ spc' = [spc EXCEPT ![s] = "replace"]
    /\ UNCHANGED <<dir, orig, lastRenamed, nsaves, srec, loadVars,
                   session, pureVars, appVars>>

\* os.replace(tmp, path), then the redirect annotate returns
SaveReplace(s) ==
    /\ spc[s] = "replace"
    /\ IF dir[WritePath] = 0
       THEN \* FileNotFoundError: the temporary file is no longer there
            /\ spc' = [spc EXCEPT ![s] = "raised_enoent"]
            /\ UNCHANGED <<dir, data, lastRenamed>>
       ELSE /\ LET moved == IF WritePath = "target" THEN dir
                            ELSE [dir EXCEPT !["target"] = dir[WritePath],
                                             ![WritePath] = 0]
               IN  /\ dir' = moved
                   /\ data' = Scrub(moved, sfd, lfd, data)
            /\ lastRenamed' = srec[s]
            /\ spc' = [spc EXCEPT ![s] = "redirected"]
    /\ UNCHANGED <<orig, nsaves, sfd, soff, srec, loadVars,
                   session, pureVars, appVars>>

\* the request is over; the worker takes the next one
SaveDone(s) ==
    /\ spc[s] \in Raised \cup {"redirected"}
    /\ spc' = [spc EXCEPT ![s] = "idle"]
    /\ srec' = [srec EXCEPT ![s] = 0]
    /\ UNCHANGED <<fsVars, nsaves, sfd, soff, loadVars, session, pureVars, appVars>>

\* ---- I/O failures in save_annotations: nothing catches them

\* open(tmp, "w") fails: no file is created
SaveOpenFail(s) ==
    /\ spc[s] = "idle"
    /\ nsaves < MaxSaves
    /\ nsaves' = nsaves + 1
    /\ spc' = [spc EXCEPT ![s] = "raised_oserror"]
    /\ UNCHANGED <<fsVars, sfd, soff, srec, loadVars, session, pureVars, appVars>>

\* a write fails while dumping (disk full): the file is closed on leaving
\* `with` and stays where it is
SaveDumpFail(s) ==
    /\ spc[s] = "dump"
    /\ sfd' = [sfd EXCEPT ![s] = 0]
    /\ data' = Scrub(dir, sfd', lfd, data)
    /\ soff' = [soff EXCEPT ![s] = 0]
    /\ spc' = [spc EXCEPT ![s] = "raised_oserror"]
    /\ UNCHANGED <<dir, orig, lastRenamed, nsaves, srec, loadVars,
                   session, pureVars, appVars>>

\* f.flush() or os.fsync fails: the rest of the record did or did not reach
\* the file
SaveFlushFail(s) ==
    /\ spc[s] = "flush"
    /\ \E reached \in BOOLEAN :
         LET written == IF reached
                        THEN [data EXCEPT ![sfd[s]] =
                                 WriteAt(@, soff[s], Chunk(srec[s], 2))]
                        ELSE data
             closed == [sfd EXCEPT ![s] = 0]
         IN  /\ sfd' = closed
             /\ data' = Scrub(dir, closed, lfd, written)
    /\ soff' = [soff EXCEPT ![s] = 0]
    /\ spc' = [spc EXCEPT ![s] = "raised_oserror"]
    /\ UNCHANGED <<dir, orig, lastRenamed, nsaves, srec, loadVars,
                   session, pureVars, appVars>>

\* os.replace fails (permission denied): both paths stay as they are
SaveReplaceFail(s) ==
    /\ spc[s] = "replace"
    /\ spc' = [spc EXCEPT ![s] = "raised_oserror"]
    /\ UNCHANGED <<fsVars, nsaves, sfd, soff, srec, loadVars,
                   session, pureVars, appVars>>

\* ---- load_existing_annotations

LoadReturn(l, result) ==
    /\ lpc' = [lpc EXCEPT ![l] = "returned"]
    /\ lres' = [lres EXCEPT ![l] = result]

\* os.path.exists(path)
LoadExists(l) ==
    /\ lpc[l] = "idle"
    /\ IF dir["target"] = 0
       THEN LoadReturn(l, "empty")
       ELSE lpc' = [lpc EXCEPT ![l] = "getsize"] /\ UNCHANGED lres
    /\ UNCHANGED <<fsVars, saveVars, lfd, lread, session, pureVars, appVars>>

\* os.path.getsize(path) == 0, evaluated outside the try block
LoadGetsize(l) ==
    /\ lpc[l] = "getsize"
    /\ IF dir["target"] = 0
       THEN \* FileNotFoundError leaves load_existing_annotations
            /\ lpc' = [lpc EXCEPT ![l] = "raised"]
            /\ lres' = [lres EXCEPT ![l] = "raised"]
       ELSE IF Len(data[dir["target"]]) = 0
       THEN LoadReturn(l, "empty")
       ELSE lpc' = [lpc EXCEPT ![l] = "open"] /\ UNCHANGED lres
    /\ UNCHANGED <<fsVars, saveVars, lfd, lread, session, pureVars, appVars>>

\* open(path, "r"); a missing file is caught by `except Exception`
LoadOpen(l) ==
    /\ lpc[l] = "open"
    /\ IF dir["target"] = 0
       THEN LoadReturn(l, "empty") /\ UNCHANGED lfd
       ELSE /\ lfd' = [lfd EXCEPT ![l] = dir["target"]]
            /\ lpc' = [lpc EXCEPT ![l] = "read"]
            /\ UNCHANGED lres
    /\ UNCHANGED <<fsVars, saveVars, lread, session, pureVars, appVars>>

\* json.load(f), and the file is closed on leaving `with`
LoadRead(l) ==
    /\ lpc[l] = "read"
    /\ lread' = [lread EXCEPT ![l] = data[lfd[l]]]
    /\ lfd' = [lfd EXCEPT ![l] = 0]
    /\ data' = Scrub(dir, sfd, lfd', data)
    /\ IF Parses(data[lfd[l]])
       THEN LoadReturn(l, "record")
       ELSE \* json.JSONDecodeError
            lpc' = [lpc EXCEPT ![l] = "quarantine"] /\ UNCHANGED lres
    /\ UNCHANGED <<dir, orig, lastRenamed, saveVars, session, pureVars, appVars>>

\* a plausible slip: the corrupt file is removed instead of renamed
QuarantineRemoves(d) == [d EXCEPT !["target"] = 0]

\* the directory after os.replace(path, path + ".corrupt")
Quarantine(d) == [d EXCEPT !["corrupt"] = d["target"], !["target"] = 0]

\* os.replace(path, path + ".corrupt") under try/except: pass, then return {}
LoadQuarantine(l) ==
    /\ lpc[l] = "quarantine"
    /\ IF dir["target"] = 0
       THEN UNCHANGED <<dir, data>>
       ELSE /\ dir' = Quarantine(dir)
            /\ data' = Scrub(dir', sfd, lfd, data)
    /\ LoadReturn(l, "empty")
    /\ UNCHANGED <<orig, lastRenamed, saveVars, lfd, lread, session, pureVars, appVars>>

\* the caller has its answer; the worker takes the next request
LoadDone(l) ==
    /\ lpc[l] \in {"returned", "raised"}
    /\ lpc' = [lpc EXCEPT ![l] = "idle"]
    /\ lres' = [lres EXCEPT ![l] = "none"]
    /\ lread' = [lread EXCEPT ![l] = NoFile]
    /\ UNCHANGED <<fsVars, saveVars, lfd, session, pureVars, appVars>>

\* ---- I/O failures in load_existing_annotations

\* os.path.exists answers False on an OSError
LoadExistsFail(l) ==
    /\ lpc[l] = "idle"
    /\ LoadReturn(l, "empty")
    /\ UNCHANGED <<fsVars, saveVars, lfd, lread, session, pureVars, appVars>>

\* os.path.getsize raises OSError, outside the try block
LoadGetsizeFail(l) ==
    /\ lpc[l] = "getsize"
    /\ lpc' = [lpc EXCEPT ![l] = "raised"]
    /\ lres' = [lres EXCEPT ![l] = "raised"]
    /\ UNCHANGED <<fsVars, saveVars, lfd, lread, session, pureVars, appVars>>

\* open raises OSError: `except Exception`
LoadOpenFail(l) ==
    /\ lpc[l] = "open"
    /\ LoadReturn(l, "empty")
    /\ UNCHANGED <<fsVars, saveVars, lfd, lread, session, pureVars, appVars>>

\* the read raises OSError: `except Exception`
LoadReadFail(l) ==
    /\ lpc[l] = "read"
    /\ lfd' = [lfd EXCEPT ![l] = 0]
    /\ data' = Scrub(dir, sfd, lfd', data)
    /\ LoadReturn(l, "empty")
    /\ UNCHANGED <<dir, orig, lastRenamed, saveVars, lread, session, pureVars, appVars>>

\* the quarantine rename raises: `except Exception: pass`
LoadQuarantineFail(l) ==
    /\ lpc[l] = "quarantine"
    /\ LoadReturn(l, "empty")
    /\ UNCHANGED <<fsVars, saveVars, lfd, lread, session, pureVars, appVars>>

----------------------------------------------------------------------------
(* Specifications of the store *)

\* saves and loads interleaved freely, with I/O failures
Next ==
    \/ \E s \in DOMAIN spc : SaveOpen(s)
    \/ \E s \in DOMAIN spc : SaveDump(s)
    \/ \E s \in DOMAIN spc : SaveFlush(s)
    \/ \E s \in DOMAIN spc : SaveReplace(s)
    \/ \E s \in DOMAIN spc : SaveDone(s)
    \/ \E s \in DOMAIN spc : SaveOpenFail(s)
    \/ \E s \in DOMAIN spc : SaveDumpFail(s)
    \/ \E s \in DOMAIN spc : SaveFlushFail(s)
    \/ \E s \in DOMAIN spc : SaveReplaceFail(s)
    \/ \E l \in DOMAIN lpc : LoadExists(l)
    \/ \E l \in DOMAIN lpc : LoadGetsize(l)
    \/ \E l \in DOMAIN lpc : LoadOpen(l)
    \/ \E l \in DOMAIN lpc : LoadRead(l)
    \/ \E l \in DOMAIN lpc : LoadQuarantine(l)
    \/ \E l \in DOMAIN lpc : LoadDone(l)
    \/ \E l \in DOMAIN lpc : LoadExistsFail(l)
    \/ \E l \in DOMAIN lpc : LoadGetsizeFail(l)
    \/ \E l \in DOMAIN lpc : LoadOpenFail(l)
    \/ \E l \in DOMAIN lpc : LoadReadFail(l)
    \/ \E l \in DOMAIN lpc : LoadQuarantineFail(l)

Spec == InitStore /\ [][Next]_vars

\* saves and loads interleaved freely, every system call succeeding
NextRace ==
    \/ \E s \in DOMAIN spc : SaveOpen(s)
    \/ \E s \in DOMAIN spc : SaveDump(s)
    \/ \E s \in DOMAIN spc : SaveFlush(s)
    \/ \E s \in DOMAIN spc : SaveReplace(s)
    \/ \E s \in DOMAIN spc : SaveDone(s)
    \/ \E l \in DOMAIN lpc : LoadExists(l)
    \/ \E l \in DOMAIN lpc : LoadGetsize(l)
    \/ \E l \in DOMAIN lpc : LoadOpen(l)
    \/ \E l \in DOMAIN lpc : LoadRead(l)
    \/ \E l \in DOMAIN lpc : LoadQuarantine(l)
    \/ \E l \in DOMAIN lpc : LoadDone(l)

SpecRace == InitStore /\ [][NextRace]_vars

\* one save in progress at a time (a single saving worker), any number of
\* loads beside it, with I/O failures
NextOneSave ==
    \/ \E s \in DOMAIN spc : SaveOpen(s)
    \/ \E s \in DOMAIN spc : SaveDump(s)
    \/ \E s \in DOMAIN spc : SaveFlush(s)
    \/ \E s \in DOMAIN spc : SaveReplace(s)
    \/ \E s \in DOMAIN spc : SaveDone(s)
    \/ \E s \in DOMAIN spc : SaveOpenFail(s)
    \/ \E s \in DOMAIN spc : SaveDumpFail(s)
    \/ \E s \in DOMAIN spc : SaveFlushFail(s)
    \/ \E s \in DOMAIN spc : SaveReplaceFail(s)
    \/ \E l \in DOMAIN lpc : LoadExists(l)
    \/ \E l \in DOMAIN lpc : LoadGetsize(l)
    \/ \E l \in DOMAIN lpc : LoadOpen(l)
    \/ \E l \in DOMAIN lpc : LoadRead(l)
    \/ \E l \in DOMAIN lpc : LoadQuarantine(l)
    \/ \E l \in DOMAIN lpc : LoadDone(l)
    \/ \E l \in DOMAIN lpc : LoadExistsFail(l)
    \/ \E l \in DOMAIN lpc : LoadGetsizeFail(l)
    \/ \E l \in DOMAIN lpc : LoadOpenFail(l)
    \/ \E l \in DOMAIN lpc : LoadReadFail(l)
    \/ \E l \in DOMAIN lpc : LoadQuarantineFail(l)

SpecOneSave == InitOneSave /\ [][NextOneSave]_vars

\* one request at a time, run to completion, every system call succeeding
NextSeq ==
    \/ \E s \in DOMAIN spc : AllIdle /\ SaveOpen(s)
    \/ \E s \in DOMAIN spc : SaveDump(s)
    \/ \E s \in DOMAIN spc : SaveFlush(s)
    \/ \E s \in DOMAIN spc : SaveReplace(s)
    \/ \E s \in DOMAIN spc : SaveDone(s)
    \/ \E l \in DOMAIN lpc : AllIdle /\ LoadExists(l)
    \/ \E l \in DOMAIN lpc : LoadGetsize(l)
    \/ \E l \in DOMAIN lpc : LoadOpen(l)
    \/ \E l \in DOMAIN lpc : LoadRead(l)
    \/ \E l \in DOMAIN lpc : LoadQuarantine(l)
    \/ \E l \in DOMAIN lpc : LoadDone(l)

SpecSeq == InitStore /\ [][NextSeq]_vars

----------------------------------------------------------------------------
(* Properties of the store *)

TargetContent == ContentAt(dir, data, "target")

\* what a path may hold without any write being visible half done: nothing,
\* what it held at the start, or the complete record of a save
Settled(c) == c = NoFile \/ c = orig \/ IsCompleteRecord(c)

\* C1: with one save in progress and any number of concurrent loads, the
\* target path is absent, holds what it held before, or holds a complete
\* record, and no load reads a partially written record from it.
C1_NoPartialRecordVisible ==
    /\ Settled(TargetContent)
    /\ \A l \in DOMAIN lpc : Settled(lread[l])

\* a load has returned the first save's record while the second save has
\* written only the first part of its temporary file
C1_Witness ==
    \E s \in DOMAIN spc, l \in DOMAIN lpc :
        /\ spc[s] = "flush" /\ srec[s] = 2
        /\ data[sfd[s]] = <<Chunk(2, 1)>>
        /\ lres[l] = "record" /\ lread[l] = Record(1)
        /\ TargetContent = Record(1)

C5_ConcurrentSavesLastRenameWins ==
    /\ Settled(TargetContent)
    /\ \A s \in DOMAIN spc : spc[s] \notin Raised
    /\ (NoSaveInProgress /\ lastRenamed # 0 /\ dir["target"] # 0)
           => TargetContent = Record(lastRenamed)

\* C6: by the step at which a save fails, the failure propagates (no
\* redirect), the target path holds what it held, and no partially written
\* file is left in the directory.
C6_FailedSaveLeavesNoPartialFile ==
    [][\A s \in DOMAIN spc :
          (spc[s] \notin Raised /\ spc'[s] \in Raised) =>
              /\ spc'[s] # "redirected"
              /\ ContentAt(dir', data', "target") = TargetContent
              /\ \/ dir'["tmp"] = 0
                 \/ IsCompleteRecord(ContentAt(dir', data', "tmp"))]_vars

\* C9: load never propagates an error to its caller, and what it returns is
\* an empty result or a complete record.
C9_LoadNeverRaises ==
    \A l \in DOMAIN lpc :
        /\ lres[l] # "raised"
        /\ lres[l] = "record" => IsCompleteRecord(lread[l])

\* C10: once a save has returned, its record stays at the target path until
\* the next save's rename; no load moves it away.
C10_SavedRecordStays ==
    [][(lastRenamed # 0 /\ TargetContent = Record(lastRenamed)) =>
          \/ ContentAt(dir', data', "target") = Record(lastRenamed)
          \/ lastRenamed' # lastRenamed]_vars

====
